---- MODULE Spec2Model ----
(***************************************************************************)
(* Model of the two diagnostic scripts of fintellic-mobile:                *)
(*   verify_field_mapping.py  - per filing type, set differences between   *)
(*                              DB_FIELDS and FRONTEND_FIELDS, printed     *)
(*   test_field_flow.py       - per filing, GET the filing and print the   *)
(*                              non-null keys of a 200 response            *)
(* Spec     is the run of verify_field_mapping.py,                         *)
(* SpecFlow is the run of test_field_flow.py.                              *)
(***************************************************************************)
EXTENDS Integers, Sequences, FiniteSets

VARIABLES
  DB_FIELDS, FRONTEND_FIELDS,      \* the two module-level tables
  pc, i, filing_type,              \* position in verify_field_mapping.py
  db_fields, fe_fields,            \* loop-body locals, lines 58-59
  missing_in_frontend, extra_in_frontend, matched,
  todo,                            \* fields the inner for loop has not printed yet
  out, exc,                        \* printed lines, uncaught exception
  token, fpc, fi, flow_type, filing_id,  \* test_field_flow.py
  response, data, keys, fout, fexc

mapVars == <<DB_FIELDS, FRONTEND_FIELDS, pc, i, filing_type, db_fields, fe_fields,
             missing_in_frontend, extra_in_frontend, matched, todo, out, exc>>
flowVars == <<token, fpc, fi, flow_type, filing_id, response, data, keys, fout, fexc>>
vars == <<mapVars, flowVars>>

----------------------------------------------------------------------------
(* Bounds *)

NumFields == 4      \* generic field names a varied table entry is drawn from
NumKeys == 2        \* JSON keys a response body is drawn from

----------------------------------------------------------------------------
(* Python values *)

PySet(S) == [tag |-> "set", elems |-> S]
PyNone == [tag |-> "NoneType", elems |-> {}]
Unbound == [tag |-> "unbound", elems |-> {}]
IsSet(v) == v.tag = "set"
\* truth value of an object in an if statement: a set is true iff non-empty
Truthy(v) == IsSet(v) /\ v.elems # {}

\* code points of the strings that the programs order or could order
Codes == [s \in {"10-K", "10-Q", "8-K", "S-1", "id", "items", "item_type"} |->
            CASE s = "10-K" -> <<49, 48, 45, 75>>
              [] s = "10-Q" -> <<49, 48, 45, 81>>
              [] s = "8-K" -> <<56, 45, 75>>
              [] s = "S-1" -> <<83, 45, 49>>
              [] s = "id" -> <<105, 100>>
              [] s = "items" -> <<105, 116, 101, 109, 115>>
              [] s = "item_type" -> <<105, 116, 101, 109, 95, 116, 121, 112, 101>>]

RECURSIVE SeqLess(_, _)
SeqLess(s, t) ==
  IF s = <<>> THEN t # <<>>
  ELSE IF t = <<>> THEN FALSE
  ELSE IF Head(s) # Head(t) THEN Head(s) < Head(t)
  ELSE SeqLess(Tail(s), Tail(t))

\* Python's str.__lt__: lexicographic on code points
StrLess(s, t) == SeqLess(Codes[s], Codes[t])

----------------------------------------------------------------------------
(* verify_field_mapping.py: the tables *)

DbLiteral ==
  [c \in {"10-K", "10-Q", "8-K", "S-1"} |->
     CASE c = "10-K" -> PySet({"auditor_opinion", "business_segments", "growth_drivers",
                               "management_outlook", "market_impact_10k", "risk_summary",
                               "strategic_adjustments", "three_year_financials"})
       [] c = "10-Q" -> PySet({"beat_miss_analysis", "cost_structure",
                               "expectations_comparison", "growth_decline_analysis",
                               "guidance_update", "management_tone_analysis",
                               "market_impact_10q"})
       [] c = "8-K" -> PySet({"event_nature_analysis", "event_timeline", "item_type",
                              "items", "key_considerations", "market_impact_analysis"})
       [] c = "S-1" -> PySet({"company_overview", "competitive_moat_analysis",
                              "financial_summary", "growth_path_analysis", "ipo_details",
                              "risk_categories"})]

FeLiteral ==
  [c \in {"10-K", "10-Q", "8-K", "S-1"} |->
     CASE c = "10-K" -> PySet({"auditor_opinion", "business_segments", "growth_drivers",
                               "management_outlook", "risk_summary",
                               "strategic_adjustments", "three_year_financials"})
       [] c = "10-Q" -> PySet({"beat_miss_analysis", "cost_structure",
                               "expectations_comparison", "growth_decline_analysis",
                               "guidance_update", "management_tone_analysis"})
       [] c = "8-K" -> PySet({"event_nature_analysis", "event_timeline", "item_type",
                              "items", "key_considerations", "market_impact_analysis",
                              "event_summary", "event_type"})
       [] c = "S-1" -> PySet({"company_overview", "competitive_moat_analysis",
                              "financial_summary", "growth_path_analysis", "ipo_details",
                              "risk_categories", "business_description"})]

\* the list the for statement iterates
Order == <<"10-K", "10-Q", "8-K", "S-1">>

Categories == {Order[n] : n \in 1..Len(Order)}

\* what the three numbered advice lines name, per filing type
AdviceNames ==
  [c \in {"10-K", "10-Q", "8-K", "S-1"} |->
     CASE c = "10-K" -> [missing |-> {"market_impact_10k"}, extra |-> {}]
       [] c = "10-Q" -> [missing |-> {"market_impact_10q"}, extra |-> {}]
       [] c = "8-K" -> [missing |-> {}, extra |-> {"event_summary", "event_type"}]
       [] c = "S-1" -> [missing |-> {}, extra |-> {"business_description"}]]

----------------------------------------------------------------------------
(* Inputs: the tables as written, or the tables with the entry of one      *)
(* filing type replaced by an arbitrary entry (any set over a small field  *)
(* universe, None, or no entry at all).                                    *)

FieldNames == <<"a", "b", "c", "d", "e", "f">>
Fields == {FieldNames[n] : n \in 1..NumFields}

Absent == [tag |-> "absent", elems |-> {}]
Entries == {PySet(S) : S \in SUBSET Fields} \cup {PyNone, Absent}

Replace(table, k, e) ==
  IF e = Absent THEN [c \in (DOMAIN table) \ {k} |-> table[c]]
  ELSE [table EXCEPT ![k] = e]

\* one printed line
Line(kind, cat, field, num, den) ==
  [kind |-> kind, cat |-> cat, field |-> field, num |-> num, den |-> den]

InitMapping ==
  /\ \/ DB_FIELDS = DbLiteral /\ FRONTEND_FIELDS = FeLiteral
     \/ \E k \in Categories, r \in Entries, o \in Entries :
          /\ DB_FIELDS = Replace(DbLiteral, k, r)
          /\ FRONTEND_FIELDS = Replace(FeLiteral, k, o)
  /\ pc = "title"
  /\ i = 0
  /\ filing_type = "unbound"
  /\ db_fields = Unbound /\ fe_fields = Unbound
  /\ missing_in_frontend = Unbound /\ extra_in_frontend = Unbound /\ matched = Unbound
  /\ todo = {}
  /\ out = <<>>
  /\ exc = "none"

----------------------------------------------------------------------------
(* verify_field_mapping.py: the expressions of the loop body *)

\* operand order reversed
MissingOfSwapped(db, fe) == fe \ db

\* db_fields - fe_fields
MissingOf(db, fe) == db \ fe

\* the subtraction forgotten
ExtraOfWhole(db, fe) == fe

\* fe_fields - db_fields
ExtraOf(db, fe) == fe \ db

\* | typed for &
MatchedOfUnion(db, fe) == db \cup fe

\* the intersection forgotten
MatchedOfDb(db, fe) == db

\* db_fields & fe_fields
MatchedOf(db, fe) == db \cap fe

\* the denominator taken from the wrong table
MatchedLineFe(ft, m, db, fe) == Line("matched", ft, "", Cardinality(m), Cardinality(fe))

\* f"... {len(matched)}/{len(db_fields)}": the two counts, no quotient is computed
MatchedLine(ft, m, db, fe) == Line("matched", ft, "", Cardinality(m), Cardinality(db))

Raise(e) ==
  /\ pc' = "raised"
  /\ exc' = e

----------------------------------------------------------------------------
(* verify_field_mapping.py: the statements *)

PrintTitle ==
  /\ pc = "title"
  /\ out' = Append(out, Line("title", "", "", 0, 0))
  /\ pc' = "for"
  /\ UNCHANGED <<DB_FIELDS, FRONTEND_FIELDS, i, filing_type, db_fields, fe_fields,
                 missing_in_frontend, extra_in_frontend, matched, todo, exc>>
  /\ UNCHANGED flowVars

ForFilingType ==
  /\ pc = "for"
  /\ IF i < Len(Order)
       THEN /\ i' = i + 1
            /\ filing_type' = Order[i + 1]
            /\ pc' = "header"
       ELSE /\ pc' = "advice"
            /\ UNCHANGED <<i, filing_type>>
  /\ UNCHANGED <<DB_FIELDS, FRONTEND_FIELDS, db_fields, fe_fields,
                 missing_in_frontend, extra_in_frontend, matched, todo, out, exc>>
  /\ UNCHANGED flowVars

PrintHeader ==
  /\ pc = "header"
  /\ out' = out \o <<Line("header", filing_type, "", 0, 0),
                     Line("rule", filing_type, "", 0, 0)>>
  /\ pc' = "lookup_db"
  /\ UNCHANGED <<DB_FIELDS, FRONTEND_FIELDS, i, filing_type, db_fields, fe_fields,
                 missing_in_frontend, extra_in_frontend, matched, todo, exc>>
  /\ UNCHANGED flowVars

LookupDb ==
  /\ pc = "lookup_db"
  /\ IF filing_type \in DOMAIN DB_FIELDS
       THEN /\ db_fields' = DB_FIELDS[filing_type]
            /\ pc' = "lookup_fe"
            /\ UNCHANGED exc
       ELSE /\ Raise("KeyError")
            /\ UNCHANGED db_fields
  /\ UNCHANGED <<DB_FIELDS, FRONTEND_FIELDS, i, filing_type, fe_fields,
                 missing_in_frontend, extra_in_frontend, matched, todo, out>>
  /\ UNCHANGED flowVars

\* the entry of the first filing type read for every filing type
LookupFeFirst ==
  /\ pc = "lookup_fe"
  /\ IF Order[1] \in DOMAIN FRONTEND_FIELDS
       THEN /\ fe_fields' = FRONTEND_FIELDS[Order[1]]
            /\ pc' = "missing"
            /\ UNCHANGED exc
       ELSE /\ Raise("KeyError")
            /\ UNCHANGED fe_fields
  /\ UNCHANGED <<DB_FIELDS, FRONTEND_FIELDS, i, filing_type, db_fields,
                 missing_in_frontend, extra_in_frontend, matched, todo, out>>
  /\ UNCHANGED flowVars

LookupFe ==
  /\ pc = "lookup_fe"
  /\ IF filing_type \in DOMAIN FRONTEND_FIELDS
       THEN /\ fe_fields' = FRONTEND_FIELDS[filing_type]
            /\ pc' = "missing"
            /\ UNCHANGED exc
       ELSE /\ Raise("KeyError")
            /\ UNCHANGED fe_fields
  /\ UNCHANGED <<DB_FIELDS, FRONTEND_FIELDS, i, filing_type, db_fields,
                 missing_in_frontend, extra_in_frontend, matched, todo, out>>
  /\ UNCHANGED flowVars

\* the difference taken in place (db_fields -= fe_fields) on the table's own set
ComputeMissingInPlace ==
  /\ pc = "missing"
  /\ IF IsSet(db_fields) /\ IsSet(fe_fields)
       THEN /\ missing_in_frontend' = PySet(MissingOf(db_fields.elems, fe_fields.elems))
            /\ db_fields' = missing_in_frontend'
            /\ DB_FIELDS' = [DB_FIELDS EXCEPT ![filing_type] = missing_in_frontend']
            /\ pc' = "if_missing"
            /\ UNCHANGED exc
       ELSE /\ Raise("TypeError")
            /\ UNCHANGED <<missing_in_frontend, db_fields, DB_FIELDS>>
  /\ UNCHANGED <<FRONTEND_FIELDS, i, filing_type, fe_fields,
                 extra_in_frontend, matched, todo, out>>
  /\ UNCHANGED flowVars

\* set.__sub__ builds a new set; a non-set operand raises TypeError
ComputeMissing ==
  /\ pc = "missing"
  /\ IF IsSet(db_fields) /\ IsSet(fe_fields)
       THEN /\ missing_in_frontend' = PySet(MissingOf(db_fields.elems, fe_fields.elems))
            /\ pc' = "if_missing"
            /\ UNCHANGED exc
       ELSE /\ Raise("TypeError")
            /\ UNCHANGED missing_in_frontend
  /\ UNCHANGED <<DB_FIELDS, FRONTEND_FIELDS, i, filing_type, db_fields, fe_fields,
                 extra_in_frontend, matched, todo, out>>
  /\ UNCHANGED flowVars

IfMissing ==
  /\ pc = "if_missing"
  /\ IF Truthy(missing_in_frontend)
       THEN /\ out' = Append(out, Line("missing_hdr", filing_type, "", 0, 0))
            /\ todo' = missing_in_frontend.elems
            /\ pc' = "for_missing"
       ELSE /\ pc' = "extra"
            /\ UNCHANGED <<out, todo>>
  /\ UNCHANGED <<DB_FIELDS, FRONTEND_FIELDS, i, filing_type, db_fields, fe_fields,
                 missing_in_frontend, extra_in_frontend, matched, exc>>
  /\ UNCHANGED flowVars

\* a set is iterated in an order that depends on the string hash seed
ForMissingField ==
  /\ pc = "for_missing"
  /\ IF todo # {}
       THEN \E field \in todo :
              /\ out' = Append(out, Line("missing", filing_type, field, 0, 0))
              /\ todo' = todo \ {field}
              /\ UNCHANGED pc
       ELSE /\ pc' = "extra"
            /\ UNCHANGED <<out, todo>>
  /\ UNCHANGED <<DB_FIELDS, FRONTEND_FIELDS, i, filing_type, db_fields, fe_fields,
                 missing_in_frontend, extra_in_frontend, matched, exc>>
  /\ UNCHANGED flowVars

ComputeExtra ==
  /\ pc = "extra"
  /\ extra_in_frontend' = PySet(ExtraOf(db_fields.elems, fe_fields.elems))
  /\ pc' = "if_extra"
  /\ UNCHANGED <<DB_FIELDS, FRONTEND_FIELDS, i, filing_type, db_fields, fe_fields,
                 missing_in_frontend, matched, todo, out, exc>>
  /\ UNCHANGED flowVars

IfExtra ==
  /\ pc = "if_extra"
  /\ IF Truthy(extra_in_frontend)
       THEN /\ out' = Append(out, Line("extra_hdr", filing_type, "", 0, 0))
            /\ todo' = extra_in_frontend.elems
            /\ pc' = "for_extra"
       ELSE /\ pc' = "matched"
            /\ UNCHANGED <<out, todo>>
  /\ UNCHANGED <<DB_FIELDS, FRONTEND_FIELDS, i, filing_type, db_fields, fe_fields,
                 missing_in_frontend, extra_in_frontend, matched, exc>>
  /\ UNCHANGED flowVars

ForExtraField ==
  /\ pc = "for_extra"
  /\ IF todo # {}
       THEN \E field \in todo :
              /\ out' = Append(out, Line("extra", filing_type, field, 0, 0))
              /\ todo' = todo \ {field}
              /\ UNCHANGED pc
       ELSE /\ pc' = "matched"
            /\ UNCHANGED <<out, todo>>
  /\ UNCHANGED <<DB_FIELDS, FRONTEND_FIELDS, i, filing_type, db_fields, fe_fields,
                 missing_in_frontend, extra_in_frontend, matched, exc>>
  /\ UNCHANGED flowVars

ComputeMatched ==
  /\ pc = "matched"
  /\ matched' = PySet(MatchedOf(db_fields.elems, fe_fields.elems))
  /\ out' = Append(out, MatchedLine(filing_type, matched'.elems,
                                    db_fields.elems, fe_fields.elems))
  /\ pc' = "for"
  /\ UNCHANGED <<DB_FIELDS, FRONTEND_FIELDS, i, filing_type, db_fields, fe_fields,
                 missing_in_frontend, extra_in_frontend, todo, exc>>
  /\ UNCHANGED flowVars

PrintAdvice ==
  /\ pc = "advice"
  /\ out' = out \o [n \in 1..9 |-> Line("advice", "", "", n, 0)]
  /\ pc' = "done"
  /\ UNCHANGED <<DB_FIELDS, FRONTEND_FIELDS, i, filing_type, db_fields, fe_fields,
                 missing_in_frontend, extra_in_frontend, matched, todo, exc>>
  /\ UNCHANGED flowVars

----------------------------------------------------------------------------
(* test_field_flow.py *)

FilingIds == [c \in {"10-K", "10-Q", "8-K", "S-1"} |->
                CASE c = "10-K" -> "YOUR_10K_ID"
                  [] c = "10-Q" -> "YOUR_10Q_ID"
                  [] c = "8-K" -> "YOUR_8K_ID"
                  [] c = "S-1" -> "YOUR_S1_ID"]

\* dict.items() iterates in insertion order
FilingOrder == <<"10-K", "10-Q", "8-K", "S-1">>

HTTP_OK == 200
StatusCodes == {HTTP_OK, 404, 500}

KeyNames == <<"items", "id", "item_type">>
JsonKeys == {KeyNames[n] : n \in 1..NumKeys}
\* a JSON object: each key present maps to null or to some non-null value
Bodies == UNION {[S -> {"null", "value"}] : S \in SUBSET JsonKeys}
EmptyBody == [k \in {} |-> "null"]
NoResponse == [url |-> "", status_code |-> 0, body |-> EmptyBody]

\* sorted(): ascending by str comparison
RECURSIVE Sorted(_)
Sorted(S) ==
  IF S = {} THEN <<>>
  ELSE LET m == CHOOSE x \in S : \A y \in S \ {x} : StrLess(x, y)
       IN <<m>> \o Sorted(S \ {m})

FlowRaise(e) ==
  /\ fpc' = "raised"
  /\ fexc' = e

\* Line 14, the assignment of token, is commented out and line 13 tells the
\* operator to log in and supply it: token = "unbound" is the file as it
\* stands, any other value the file with line 14 filled in.
InitFlow ==
  /\ token \in {"unbound", "YOUR_TOKEN"}
  /\ fpc = "for"
  /\ fi = 0
  /\ flow_type = "unbound"
  /\ filing_id = "unbound"
  /\ response = NoResponse
  /\ data = EmptyBody
  /\ keys = <<>>
  /\ fout = <<>>
  /\ fexc = "none"

ForFiling ==
  /\ fpc = "for"
  /\ IF fi < Len(FilingOrder)
       THEN /\ fi' = fi + 1
            /\ flow_type' = FilingOrder[fi + 1]
            /\ filing_id' = FilingIds[FilingOrder[fi + 1]]
            /\ fpc' = "get"
       ELSE /\ fpc' = "done"
            /\ UNCHANGED <<fi, flow_type, filing_id>>
  /\ UNCHANGED <<token, response, data, keys, fout, fexc>>
  /\ UNCHANGED mapVars

\* requests.get: the arguments are evaluated first (NameError when token is
\* unbound); the call returns a response with some status, or raises
Get ==
  /\ fpc = "get"
  /\ IF token = "unbound"
       THEN /\ FlowRaise("NameError")
            /\ UNCHANGED response
       ELSE \/ /\ \E b \in Bodies :
                    response' = [url |-> filing_id, status_code |-> HTTP_OK, body |-> b]
               /\ fpc' = "if_status"
               /\ UNCHANGED fexc
            \/ /\ \E s \in StatusCodes \ {HTTP_OK} :
                    response' = [url |-> filing_id, status_code |-> s, body |-> EmptyBody]
               /\ fpc' = "if_status"
               /\ UNCHANGED fexc
            \/ /\ FlowRaise("ConnectionError")
               /\ UNCHANGED response
  /\ UNCHANGED <<token, fi, flow_type, filing_id, data, keys, fout>>
  /\ UNCHANGED mapVars

\* no else branch: any other status falls through to the next filing
IfStatus ==
  /\ fpc = "if_status"
  /\ IF response.status_code = HTTP_OK
       THEN fpc' = "json"
       ELSE fpc' = "for"
  /\ UNCHANGED <<token, fi, flow_type, filing_id, response, data, keys, fout, fexc>>
  /\ UNCHANGED mapVars

Json ==
  /\ fpc = "json"
  /\ data' = response.body
  /\ fout' = Append(fout, Line("returned", flow_type, "", 0, 0))
  /\ keys' = Sorted(DOMAIN data')
  /\ fpc' = "for_key"
  /\ UNCHANGED <<token, fi, flow_type, filing_id, response, fexc>>
  /\ UNCHANGED mapVars

ForKey ==
  /\ fpc = "for_key"
  /\ IF keys # <<>>
       THEN /\ fout' = IF data[Head(keys)] # "null"
                         THEN Append(fout, Line("key", flow_type, Head(keys), 0, 0))
                         ELSE fout
            /\ keys' = Tail(keys)
            /\ UNCHANGED fpc
       ELSE /\ fpc' = "for"
            /\ UNCHANGED <<fout, keys>>
  /\ UNCHANGED <<token, fi, flow_type, filing_id, response, data, fexc>>
  /\ UNCHANGED mapVars

----------------------------------------------------------------------------
(* The two programs *)

MappingNotRun ==
  /\ DB_FIELDS = DbLiteral /\ FRONTEND_FIELDS = FeLiteral
  /\ pc = "not_run" /\ i = 0 /\ filing_type = "unbound"
  /\ db_fields = Unbound /\ fe_fields = Unbound
  /\ missing_in_frontend = Unbound /\ extra_in_frontend = Unbound /\ matched = Unbound
  /\ todo = {} /\ out = <<>> /\ exc = "none"

FlowNotRun ==
  /\ token = "unbound" /\ fpc = "not_run" /\ fi = 0
  /\ flow_type = "unbound" /\ filing_id = "unbound"
  /\ response = NoResponse /\ data = EmptyBody /\ keys = <<>>
  /\ fout = <<>> /\ fexc = "none"

Init == InitMapping /\ FlowNotRun
Next ==
  \/ PrintTitle
  \/ ForFilingType
  \/ PrintHeader
  \/ LookupDb
  \/ LookupFe
  \/ ComputeMissing
  \/ IfMissing
  \/ ForMissingField
  \/ ComputeExtra
  \/ IfExtra
  \/ ForExtraField
  \/ ComputeMatched
  \/ PrintAdvice
Spec == Init /\ [][Next]_vars

FlowInit == InitFlow /\ MappingNotRun
FlowNext ==
  \/ ForFiling
  \/ Get
  \/ IfStatus
  \/ Json
  \/ ForKey
SpecFlow == FlowInit /\ [][FlowNext]_vars

----------------------------------------------------------------------------
(* Reading the state *)

Ref(c) == DB_FIELDS[c].elems
Obs(c) == FRONTEND_FIELDS[c].elems

\* both tables hold a set for c
Valid(c) ==
  /\ c \in DOMAIN DB_FIELDS /\ c \in DOMAIN FRONTEND_FIELDS
  /\ IsSet(DB_FIELDS[c]) /\ IsSet(FRONTEND_FIELDS[c])

LinesOf(kind, c) == {n \in 1..Len(out) : out[n].kind = kind /\ out[n].cat = c}
Printed(kind, c) == {out[n].field : n \in LinesOf(kind, c)}
Reported(c) == LinesOf("matched", c) # {}

\* the loop body has just run to its end for filing_type: the locals hold
\* that category's results and the last line printed is its matched line
JustReconciled == pc = "for" /\ i > 0
LastLine == out[Len(out)]

\* the fraction num/den printed on a matched line denotes the value p/q
CoverageIs(line, p, q) == line.den # 0 /\ line.num * q = p * line.den

Headers == SelectSeq(out, LAMBDA l : l.kind = "header")
MatchedSeq == SelectSeq(out, LAMBDA l : l.kind = "matched")

LiteralTables == DB_FIELDS = DbLiteral /\ FRONTEND_FIELDS = FeLiteral

----------------------------------------------------------------------------
(* Claims *)

\* C1: for every reference set R and observed set O of a category, the run
\* yields missing = R \ O, extra = O \ R and matched = R \cap O, lists exactly
\* those fields, and reports |matched|/|R|; for R = {a,b,c}, O = {b,c,d} it
\* yields missing = {a}, extra = {d}, matched = {b,c} and coverage 2/3.
C1_ReconcileDifferences ==
  JustReconciled =>
    LET R == Ref(filing_type)
        O == Obs(filing_type)
    IN /\ missing_in_frontend.elems = R \ O
       /\ extra_in_frontend.elems = O \ R
       /\ matched.elems = R \cap O
       /\ Printed("missing", filing_type) = R \ O
       /\ Printed("extra", filing_type) = O \ R
       /\ LastLine = Line("matched", filing_type, "", Cardinality(R \cap O), Cardinality(R))
       /\ (R = {"a", "b", "c"} /\ O = {"b", "c", "d"}) =>
            /\ missing_in_frontend.elems = {"a"}
            /\ extra_in_frontend.elems = {"d"}
            /\ matched.elems = {"b", "c"}
            /\ CoverageIs(LastLine, 2, 3)

C1_Witness ==
  /\ JustReconciled
  /\ Ref(filing_type) = {"a", "b", "c"}
  /\ Obs(filing_type) = {"b", "c", "d"}

C3_CoverageInUnitInterval ==
  \A c \in Categories :
    (Reported(c) /\ Ref(c) # {}) =>
      \A n \in LinesOf("matched", c) :
        /\ out[n].den = Cardinality(Ref(c))
        /\ out[n].den > 0
        /\ 0 <= out[n].num
        /\ out[n].num <= out[n].den

C3_Witness ==
  /\ JustReconciled
  /\ Obs(filing_type) \ Ref(filing_type) # {}
  /\ 0 < LastLine.num
  /\ LastLine.num < LastLine.den

C5_MissingMatchedDisjoint ==
  JustReconciled =>
    /\ missing_in_frontend.elems \cap matched.elems = {}
    /\ extra_in_frontend.elems \cap matched.elems = {}
    /\ Printed("missing", filing_type) \cap matched.elems = {}
    /\ Printed("extra", filing_type) \cap matched.elems = {}

C5_Witness ==
  /\ JustReconciled
  /\ missing_in_frontend.elems # {}
  /\ extra_in_frontend.elems # {}
  /\ matched.elems # {}

\* C6: the categories are processed one after another in one fixed order, the
\* order of their names sorted; what is reported for a category is determined
\* by that category's own reference and observed sets, so a category whose
\* sets are those of the tables as written is reported as in the run over the
\* tables as written, whatever another category holds; at every moment the
\* fields listed so far for a category are among its own differences.
C6_FixedOrderIndependentResults ==
  /\ \A n \in 1..Len(Headers) :
       /\ Headers[n].cat = Sorted(DOMAIN DbLiteral)[n]
       /\ \A m \in 1..(n - 1) : StrLess(Headers[m].cat, Headers[n].cat)
  /\ \A n \in 1..Len(MatchedSeq) : MatchedSeq[n].cat = Headers[n].cat
  /\ Len(Headers) - Len(MatchedSeq) \in {0, 1}
  /\ pc = "done" => Len(MatchedSeq) = Cardinality(DOMAIN DbLiteral)
  /\ \A c \in Categories :
       Valid(c) =>
         /\ Printed("missing", c) \subseteq Ref(c) \ Obs(c)
         /\ Printed("extra", c) \subseteq Obs(c) \ Ref(c)
  /\ \A c \in Categories :
       Reported(c) =>
         /\ Valid(c)
         /\ Printed("missing", c) = Ref(c) \ Obs(c)
         /\ Printed("extra", c) = Obs(c) \ Ref(c)
         /\ \A n \in LinesOf("matched", c) :
              /\ out[n].num = Cardinality(Ref(c) \cap Obs(c))
              /\ out[n].den = Cardinality(Ref(c))
         /\ (DB_FIELDS[c] = DbLiteral[c] /\ FRONTEND_FIELDS[c] = FeLiteral[c]) =>
              /\ Printed("missing", c) = DbLiteral[c].elems \ FeLiteral[c].elems
              /\ Printed("extra", c) = FeLiteral[c].elems \ DbLiteral[c].elems
              /\ \A n \in LinesOf("matched", c) :
                   /\ out[n].num = Cardinality(DbLiteral[c].elems \cap FeLiteral[c].elems)
                   /\ out[n].den = Cardinality(DbLiteral[c].elems)

C6_Witness ==
  /\ pc = "done"
  /\ Valid(Order[2]) /\ Ref(Order[2]) = {"a", "b"} /\ Obs(Order[2]) = {"b", "c"}
  /\ \A c \in Categories : Reported(c)

\* C7: no step of the run changes the reference table or the observed table.
C7_TablesUnchanged ==
  [][DB_FIELDS' = DB_FIELDS /\ FRONTEND_FIELDS' = FRONTEND_FIELDS]_vars

C7_Witness ==
  /\ pc = "done"
  /\ \A c \in Categories : Reported(c)
  /\ \E c \in Categories : Printed("missing", c) # {} /\ Printed("extra", c) # {}

\* C8: for each filing whose GET request returns a status other than 200,
\* the failure is surfaced for that filing: something is printed for it or an
\* exception is raised.
C8_NonSuccessSurfaced ==
  (fpc = "for" /\ fi > 0 /\ response.status_code # HTTP_OK) =>
    \/ \E n \in 1..Len(fout) : fout[n].cat = flow_type
    \/ fexc # "none"

\* C9: a category whose entry is not a set, or is absent, aborts only that
\* category: when the run has ended, every category with valid entries has
\* been reconciled and reported.
C9_InvalidCategoryIsolated ==
  pc \in {"done", "raised"} =>
    \A c \in Categories : Valid(c) => Reported(c)

\* C10: for the tables as written the run lists 10-K missing
\* {market_impact_10k} with 7/8, 10-Q missing {market_impact_10q} with 6/7,
\* 8-K extra {event_summary, event_type} with 6/6, S-1 extra
\* {business_description} with 6/6 and nothing else, which is what the advice
\* names; the matched line is printed exactly once per category, and a missing
\* or extra listing (its heading and one line per field) only when the set is
\* non-empty.
C10_LiteralReport ==
  (pc = "done" /\ LiteralTables) =>
    LET Expected == [c \in Categories |->
                       CASE c = "10-K" -> <<7, 8>>
                         [] c = "10-Q" -> <<6, 7>>
                         [] c = "8-K" -> <<6, 6>>
                         [] c = "S-1" -> <<6, 6>>]
    IN \A c \in Categories :
         /\ Printed("missing", c) = AdviceNames[c].missing
         /\ Printed("extra", c) = AdviceNames[c].extra
         /\ Cardinality(LinesOf("matched", c)) = 1
         /\ \A n \in LinesOf("matched", c) :
              out[n].num = Expected[c][1] /\ out[n].den = Expected[c][2]
         /\ Cardinality(LinesOf("missing_hdr", c)) =
              (IF AdviceNames[c].missing = {} THEN 0 ELSE 1)
         /\ Cardinality(LinesOf("extra_hdr", c)) =
              (IF AdviceNames[c].extra = {} THEN 0 ELSE 1)
         /\ Cardinality(LinesOf("missing", c)) = Cardinality(AdviceNames[c].missing)
         /\ Cardinality(LinesOf("extra", c)) = Cardinality(AdviceNames[c].extra)

C10_Witness ==
  /\ pc = "done"
  /\ LiteralTables
  /\ Len(MatchedSeq) = Len(Order)

====
